---- MODULE Spec2Model ----
(***************************************************************************)
(* Model of the JNI bridge randvar/c/RandUnuran.c: the uniform-source      *)
(* callbacks (unif, cons, arr), the per-object NativeParams block, init,   *)
(* close and the sampling entry points.  The UNURAN engine and the JVM     *)
(* are the environment: the engine pulls uniforms through the UNUR_URNG    *)
(* objects bound to it, the JVM supplies streams, arrays and exceptions.   *)
(***************************************************************************)
EXTENDS Integers, Sequences, FiniteSets, TLC

(* ------------------------------ bounds -------------------------------- *)
MaxN == 2            \* largest n of a batch call
MaxPulls == 3        \* uniforms the engine pulls during one sampling call, at most
MaxCloses == 2       \* close calls per object (explicit, then finalizer)
MaxSetupPulls == 1   \* uniforms unur_str2gen pulls from the default urng
MaxLives == 2        \* objects made one after the other under one handle name
MaxPairPulls == 1    \* MaxPulls of a call made while two objects are in use

MainStreams == {1}             \* RandomStream objects a mainStream field may hold
AuxStreams == {1, 2}           \* RandomStream objects an auxStream field may hold
Dims == {1, 2}                 \* dimensions a generator string may declare
VecLens == {1, 2, 3}           \* lengths of the array passed to getRandVec
Streams == MainStreams \cup AuxStreams

(* ------------------------------ values -------------------------------- *)
NULL == <<0, "null">>          \* a null C pointer
NoObj == 0                     \* a null jobject
NoArr == "null"                \* a null jarray
Undef == 0 - 1                 \* an indeterminate (never written) scalar
Stale == 0 - 2                 \* what a Java array holds before any fill

Blk(h, k) == <<h, k>>
HandleKinds == {"np", "unurgen", "urng.params", "urng.urng",
                "urng_aux.params", "urng_aux.urng", "objMainStream", "objAuxStream"}
DefaultParams == Blk(0, "default.params")
DefaultUrng == Blk(0, "default.urng")
BlocksOf(H) == {Blk(h, k) : h \in H, k \in HandleKinds} \cup {DefaultParams, DefaultUrng}
ParamBlocksOf(H) == {Blk(h, k) : h \in H, k \in {"urng.params", "urng_aux.params"}}
                      \cup {DefaultParams}

\* The k-th double a RandomStream delivers (k counts from 0).
StreamValue(s, k) == s * 100 + k
Prefetched == {1, 2}           \* uniforms the Java side precomputes

\* struct GenParams, as malloc leaves it.
FreshGenParams == [env |-> NoObj, rsObj |-> NoObj, u |-> Undef, urng |-> NULL,
                   junifArray |-> NoArr, unifArray |-> NULL, n |-> Undef,
                   nextIndex |-> Undef, unif |-> "undef"]
\* struct UrngWithParams { NULL, NULL }.
NoUrng == [urng |-> NULL, params |-> NULL]
\* struct NativeParams after memset (np, 0, ...).
ZeroNativeParams == [unurgen |-> NULL, objMainStream |-> NoObj, objAuxStream |-> NoObj,
                     urng |-> NoUrng, urng_aux |-> NoUrng, dim |-> 0]
\* UNUR_GEN: the two uniform sources the engine pulls from.
NoGen == [urng |-> NULL, urng_aux |-> NULL]

\* The local variables of a sampling call and its inputs.
NoOp == [kind |-> "none", phase |-> "none", u |-> Undef, n |-> 0, start |-> 0, i |-> 0,
         juaux |-> FALSE, gp |-> NULL, uPtr |-> NULL, uauxPtr |-> NULL, vPtr |-> NULL,
         pulled |-> <<>>, result |-> Undef, samples |-> 0, ex |-> "none", distr |-> NULL]

VARIABLES
  pc,             \* pc[h]: "new", "constructing", "idle", "engine", "returned"
  mainStream,     \* Java field RandUnuran.mainStream
  auxStream,      \* Java field RandUnuran.auxStream
  nativeParams,   \* Java field RandUnuran.nativeParams (jlong holding np)
  heap,           \* heap[b]: "unalloc", "live", "freed", "dfree", "lost"
  np,             \* np[h]: the NativeParams block of h
  gp,             \* gp[b]: the GenParams block b
  urngParams,     \* urngParams[b]: params pointer held by UNUR_URNG b
  gen,            \* gen[h]: the UNUR_GEN of h
  default_urng,   \* static struct UrngWithParams default_urng
  unurDefault,    \* UNURAN's global default urng (unur_set_default_urng)
  ids,            \* the cached field and method ids are set
  exc,            \* exc[h]: exception pending in the calling thread of h
  rel,            \* rel[h]: blocks released for h, in order
  held,           \* held[h][i]: the nativeParams field of h was non-null when
                  \* rel[h][i] was released
  pos,            \* pos[h][s]: doubles stream s delivered during the current call of h
  jarr,           \* jarr[h]: the Java arrays of the current batch call
  pins,           \* pins[h]: array-element acquisitions of the current call
  op,             \* op[h]: the current or last sampling call
  pullLog,        \* pullLog[h]: uniforms pulled during that call
  calls           \* calls.close[h]: close calls made on h; calls.sampled[h]: a
                  \* sampling call has returned on h; calls.lives[h]: objects
                  \* made under the name h; calls.prev[h]: the mainStream of
                  \* the object before this one; calls.overlap[h]: the
                  \* init call of h ran while another init call was under way

vars == <<pc, mainStream, auxStream, nativeParams, heap, np, gp, urngParams, gen,
          default_urng, unurDefault, ids, exc, rel, held, pos, jarr, pins, op,
          pullLog, calls>>

Handles == DOMAIN pc           \* the RandUnuran Java objects of the run
Blocks == BlocksOf(Handles)
ParamBlocks == ParamBlocksOf(Handles)

\* The native and JVM state an entry point reads and writes.
World == [nativeParams |-> nativeParams, heap |-> heap, np |-> np, gp |-> gp,
          urngParams |-> urngParams, gen |-> gen, default_urng |-> default_urng,
          unurDefault |-> unurDefault, ids |-> ids, exc |-> exc, rel |-> rel, held |-> held,
          pos |-> pos, jarr |-> jarr, pins |-> pins, op |-> op, pullLog |-> pullLog]

Commit(W) ==
  /\ nativeParams' = W.nativeParams
  /\ heap' = W.heap
  /\ np' = W.np
  /\ gp' = W.gp
  /\ urngParams' = W.urngParams
  /\ gen' = W.gen
  /\ default_urng' = W.default_urng
  /\ unurDefault' = W.unurDefault
  /\ ids' = W.ids
  /\ exc' = W.exc
  /\ rel' = W.rel
  /\ held' = W.held
  /\ pos' = W.pos
  /\ jarr' = W.jarr
  /\ pins' = W.pins
  /\ op' = W.op
  /\ pullLog' = W.pullLog

NoArrays == [ju |-> <<>>, juaux |-> <<>>, jv |-> <<>>, vec |-> <<>>]
ArrayNames == {"ju", "juaux", "jv", "vec"}
NoPins == [live |-> {}, made |-> [a \in ArrayNames |-> 0], stale |-> 0]

\* The state before any native call, for the objects H.
InitOf(H) ==
  /\ pc = [h \in H |-> "new"]
  /\ nativeParams = [h \in H |-> NULL]
  /\ heap = [b \in BlocksOf(H) |-> "unalloc"]
  /\ np = [h \in H |-> ZeroNativeParams]
  /\ gp = [b \in ParamBlocksOf(H) |-> FreshGenParams]
  /\ urngParams = [b \in BlocksOf(H) |-> NULL]
  /\ gen = [h \in H |-> NoGen]
  /\ default_urng = NoUrng
  /\ unurDefault = NULL
  /\ ids = FALSE
  /\ exc = [h \in H |-> "none"]
  /\ rel = [h \in H |-> <<>>]
  /\ held = [h \in H |-> <<>>]
  /\ pos = [h \in H |-> [s \in Streams |-> 0]]
  /\ jarr = [h \in H |-> NoArrays]
  /\ pins = [h \in H |-> NoPins]
  /\ op = [h \in H |-> NoOp]
  /\ pullLog = [h \in H |-> <<>>]
  /\ calls = [close |-> [h \in H |-> 0], sampled |-> [h \in H |-> FALSE],
              lives |-> [h \in H |-> 1], prev |-> [h \in H |-> NoObj],
              overlap |-> [h \in H |-> FALSE]]

\* One object, with any streams.
Init ==
  /\ InitOf({1})
  /\ mainStream \in [{1} -> MainStreams \cup {NoObj}]
  /\ auxStream \in [{1} -> AuxStreams \cup {NoObj}]

\* Two objects, each with a stream of its own.
PairInit ==
  /\ InitOf({1, 2})
  /\ mainStream = [h \in {1, 2} |-> h]
  /\ auxStream = [h \in {1, 2} |-> h]

(* ------------------------- malloc and free ---------------------------- *)
\* malloc, unur_urng_new, unur_str2gen, NewGlobalRef: block b comes to life.
\* Allocating into a pointer whose block is still live loses that block.
Alloc(W, b) == [W EXCEPT !.heap[b] = IF W.heap[b] = "live" THEN "lost" ELSE "live"]

\* free, unur_urng_free, unur_free, DeleteGlobalRef of block b, for object h.
\* Releasing a block that is not live is recorded as "dfree"; free (NULL)
\* changes nothing in the heap.
Release(W, h, b) ==
  IF b = NULL THEN [W EXCEPT !.rel[h] = Append(W.rel[h], b),
                             !.held[h] = Append(@, W.nativeParams[h] # NULL)]
  ELSE [W EXCEPT !.heap[b] = IF W.heap[b] = "live" THEN "freed" ELSE "dfree",
                 !.rel[h] = Append(W.rel[h], b),
                 !.held[h] = Append(@, W.nativeParams[h] # NULL)]

\* With(v, F) is F applied to v: names an intermediate world.
With(v, F(_)) == F(v)

(* ------------------------ JNI array functions ------------------------- *)
\* GetDoubleArrayElements (env, a, 0): a new acquisition of the elements of a.
\* The pointer it returns names the array and counts its acquisitions.
NewPtr(W, h, a) == <<W.pins[h].made[a] + 1, a>>
GetDoubleArrayElements(W, h, a) ==
  [W EXCEPT !.pins[h].made[a] = @ + 1,
            !.pins[h].live = @ \cup {NewPtr(W, h, a)}]

\* ReleaseDoubleArrayElements (env, a, ptr, 0): ends the acquisition ptr; a
\* pointer that is no live acquisition of a is counted in "stale".
ReleaseDoubleArrayElements(W, h, a, ptr) ==
  IF ptr \in W.pins[h].live /\ ptr[2] = a
  THEN [W EXCEPT !.pins[h].live = @ \ {ptr}]
  ELSE [W EXCEPT !.pins[h].stale = @ + 1]

\* RandomStream.nextArrayOfDouble (a, start, n) on stream s.
nextArrayOfDouble(W, h, s, a, start, n) ==
  [W EXCEPT !.jarr[h][a] = [k \in DOMAIN @ |->
                              IF k > start /\ k <= start + n
                              THEN StreamValue(s, W.pos[h][s] + (k - start - 1))
                              ELSE @[k]],
            !.pos[h][s] = @ + n]

\* The double at index i of the elements ptr points to.
ElementAt(W, h, ptr, i) ==
  IF ptr = NULL \/ i < 0 \/ i >= Len(W.jarr[h][ptr[2]]) THEN Undef
  ELSE W.jarr[h][ptr[2]][i + 1]

(* ----------------------- the uniform callbacks ------------------------ *)
\* Each returns the world after the call, the uniform delivered, the stream
\* called back (NoObj if none) and whether the array was refilled.

\* static double unif (struct GenParams* params)
unif(W, h, p) ==
  LET s == W.gp[p].rsObj
  IN [W |-> [W EXCEPT !.pos[h][s] = @ + 1],
      val |-> StreamValue(s, W.pos[h][s]), rs |-> s, refill |-> FALSE]

\* A cons that delivers the cached value without switching the block to unif.
cons_keeps_mode(W, h, p) ==
  [W |-> W, val |-> W.gp[p].u, rs |-> NoObj, refill |-> FALSE]

\* static double cons (struct GenParams* params)
cons(W, h, p) ==
  [W |-> [W EXCEPT !.gp[p].unif = "unif"],
   val |-> W.gp[p].u, rs |-> NoObj, refill |-> FALSE]

\* The refill of arr: release, nextArrayOfDouble, re-acquire, nextIndex = 0.
arr_refill(W, h, p) ==
  LET g == W.gp[p]
  IN With(nextArrayOfDouble(ReleaseDoubleArrayElements(W, h, g.junifArray, g.unifArray),
                            h, g.rsObj, g.junifArray, 0, g.n),
          LAMBDA W2 : [GetDoubleArrayElements(W2, h, g.junifArray) EXCEPT
                         !.gp[p].unifArray = NewPtr(W2, h, g.junifArray),
                         !.gp[p].nextIndex = 0])

\* An arr that refills one pull too late (nextIndex > n).
arr_refills_late(W, h, p) ==
  LET g == W.gp[p]
      need == g.nextIndex > g.n
  IN With(IF need THEN arr_refill(W, h, p) ELSE W,
          LAMBDA W4 : [W |-> [W4 EXCEPT !.gp[p].nextIndex = @ + 1],
                       val |-> ElementAt(W4, h, W4.gp[p].unifArray, W4.gp[p].nextIndex),
                       rs |-> IF need THEN g.rsObj ELSE NoObj, refill |-> need])

\* static double arr (void* p)
arr(W, h, p) ==
  LET g == W.gp[p]
      need == g.nextIndex >= g.n
  IN With(IF need THEN arr_refill(W, h, p) ELSE W,
          LAMBDA W4 : [W |-> [W4 EXCEPT !.gp[p].nextIndex = @ + 1],
                       val |-> ElementAt(W4, h, W4.gp[p].unifArray, W4.gp[p].nextIndex),
                       rs |-> IF need THEN g.rsObj ELSE NoObj, refill |-> need])

\* static double unif_wrapper (void* p): params->unif (params)
unif_wrapper(W, h, p) ==
  CASE W.gp[p].unif = "unif" -> unif(W, h, p)
    [] W.gp[p].unif = "cons" -> cons(W, h, p)
    [] W.gp[p].unif = "arr" -> arr(W, h, p)

\* The engine draws one uniform from UNUR_URNG b: it calls the sampler the
\* urng was created with (unif_wrapper) on the params pointer the urng holds.
UrngSample(W, h, slot, b) ==
  LET p == W.urngParams[b]
  IN With(unif_wrapper(W, h, p),
          LAMBDA r : [r.W EXCEPT !.pullLog[h] =
                        Append(@, [slot |-> slot, params |-> p, fn |-> W.gp[p].unif,
                                   val |-> r.val, rs |-> r.rs, refill |-> r.refill,
                                   sample |-> W.op[h].i])])

(* --------------------------- JNI exceptions --------------------------- *)
\* (*env)->Throw / ThrowNew: exception e becomes pending in the thread of h.
Throw(W, h, e) == IF e = "none" THEN W ELSE [W EXCEPT !.exc[h] = e]
ThrowNew(W, h, msg) == [W EXCEPT !.exc[h] = msg]

\* What may go wrong in one init call: the step that fails ("none": no step)
\* and, in the error path of that step, whether FindClass of the exception
\* class fails or malloc of the message fails.  A failed GetStringUTFChars
\* leaves the JVM's OutOfMemoryError pending; a failed NewGlobalRef and a null
\* stream field leave nothing pending.
FailSteps == {"none", "default.params", "default.urng", "lookup", "np", "utf", "str2gen",
              "urng.params", "urng.urng", "urng_aux.params", "urng_aux.urng",
              "NewGlobalRef.main", "NewGlobalRef.aux"}
FailSubs == {"none", "findclass", "errstr"}
Failures ==
  {f \in [at : FailSteps, sub : FailSubs] :
     \/ f.sub = "none"
     \/ f.sub = "findclass" /\ f.at \in {"default.params", "default.urng", "np", "str2gen",
                                         "urng.params", "urng.urng",
                                         "urng_aux.params", "urng_aux.urng"}
     \/ f.sub = "errstr" /\ f.at = "str2gen"}

\* (*env)->FindClass of UnuranException; a failed lookup leaves the JVM's
\* NoClassDefFoundError pending.
FindClassFails(f) == f.sub = "findclass"
FindClassFailed(W, h) == [W EXCEPT !.exc[h] = "NoClassDefFoundError"]

(* ------------------ urng_jni_create / urng_jni_destroy ---------------- *)
\* A struct UrngWithParams lives in default_urng or in np[h].
ParamsBlockOf(h, loc) ==
  CASE loc = "default" -> DefaultParams
    [] loc = "urng" -> Blk(h, "urng.params")
    [] loc = "urng_aux" -> Blk(h, "urng_aux.params")
UrngBlockOf(h, loc) ==
  CASE loc = "default" -> DefaultUrng
    [] loc = "urng" -> Blk(h, "urng.urng")
    [] loc = "urng_aux" -> Blk(h, "urng_aux.urng")
GetUW(W, h, loc) == IF loc = "default" THEN W.default_urng ELSE W.np[h][loc]
SetUW(W, h, loc, v) ==
  IF loc = "default" THEN [W EXCEPT !.default_urng = v] ELSE [W EXCEPT !.np[h][loc] = v]

\* urng_jni_destroy: if (gen->params) { free (gen->params); gen->params = NULL; }
destroy_params(W, h, loc) ==
  LET g == GetUW(W, h, loc)
  IN IF g.params # NULL
     THEN SetUW([Release(W, h, g.params) EXCEPT !.gp[g.params] = FreshGenParams],
                h, loc, [g EXCEPT !.params = NULL])
     ELSE W

\* urng_jni_destroy: if (gen->urng) { unur_urng_free (gen->urng); gen->urng = NULL; }
destroy_urng(W, h, loc) ==
  LET g == GetUW(W, h, loc)
  IN IF g.urng # NULL
     THEN SetUW([Release(W, h, g.urng) EXCEPT !.urngParams[g.urng] = NULL],
                h, loc, [g EXCEPT !.urng = NULL])
     ELSE W

\* static void urng_jni_destroy (struct UrngWithParams* gen)
urng_jni_destroy(W, h, loc) == destroy_urng(destroy_params(W, h, loc), h, loc)

\* urng_jni_create: gen->params = malloc (...); gen->params->unif = unif
create_params(W, h, loc) ==
  LET pb == ParamsBlockOf(h, loc)
  IN SetUW([Alloc(W, pb) EXCEPT !.gp[pb] = [FreshGenParams EXCEPT !.unif = "unif"]],
           h, loc, [GetUW(W, h, loc) EXCEPT !.params = pb])

\* urng_jni_create: gen->urng = unur_urng_new (unif_wrapper, gen->params)
create_urng(W, h, loc) ==
  LET ub == UrngBlockOf(h, loc)
      g == GetUW(W, h, loc)
  IN SetUW([Alloc(W, ub) EXCEPT !.urngParams[ub] = g.params],
           h, loc, [g EXCEPT !.urng = ub])

\* static void urng_jni_create (struct UrngWithParams* gen); f tells which of
\* malloc and unur_urng_new returns NULL.
urng_jni_create(W, h, loc, f) ==
  IF f.at = ParamsBlockOf(h, loc)[2]
  THEN urng_jni_destroy(SetUW(W, h, loc, [GetUW(W, h, loc) EXCEPT !.params = NULL]), h, loc)
  ELSE With(create_params(W, h, loc),
            LAMBDA W1 :
              IF f.at = UrngBlockOf(h, loc)[2]
              THEN urng_jni_destroy(SetUW(W1, h, loc, [GetUW(W1, h, loc) EXCEPT !.urng = NULL]),
                                    h, loc)
              ELSE create_urng(W1, h, loc))

(* ------------------------------- close -------------------------------- *)
\* unur_free (gen): a null gen is ignored.
unur_free(W, h, g) ==
  IF g = NULL THEN W ELSE [Release(W, h, g) EXCEPT !.gen[h] = NoGen]

\* (*env)->DeleteGlobalRef
DeleteGlobalRef(W, h, b) == Release(W, h, b)

\* close: unur_free (np->unurgen)
close_gen(W, h) == unur_free(W, h, W.np[h].unurgen)

\* close: if (np->objAuxStream) DeleteGlobalRef; if (np->objMainStream) DeleteGlobalRef
close_aux_ref(W, h) ==
  IF W.np[h].objAuxStream # NoObj THEN DeleteGlobalRef(W, h, Blk(h, "objAuxStream")) ELSE W
close_main_ref(W, h) ==
  IF W.np[h].objMainStream # NoObj THEN DeleteGlobalRef(W, h, Blk(h, "objMainStream")) ELSE W

\* A close that zeroes the nativeParams field before it frees np.
close_np_field_first(W, h) ==
  [Release([W EXCEPT !.nativeParams[h] = NULL], h, W.nativeParams[h]) EXCEPT
     !.np[h] = ZeroNativeParams]

\* close: free (np); SetLongField (env, obj, fidNativeParams, 0)
close_np(W, h) ==
  [Release(W, h, W.nativeParams[h]) EXCEPT !.np[h] = ZeroNativeParams,
                                           !.nativeParams[h] = NULL]

\* close, from "We free memory previously allocated" to the SetLongField.
close_free(W, h) ==
  close_np(close_main_ref(close_aux_ref(close_gen(
    urng_jni_destroy(urng_jni_destroy(W, h, "urng_aux"), h, "urng"), h), h), h), h)

\* A close without the test of np against NULL.
RandUnuran_close_unchecked(W, h) ==
  LET ex == W.exc[h]
  IN Throw(close_free([W EXCEPT !.exc[h] = "none"], h), h, ex)

\* A close that throws the saved exception back after the cleanup only.
RandUnuran_close_drops_pending(W, h) ==
  LET ex == W.exc[h]
  IN IF W.nativeParams[h] = NULL
     THEN [W EXCEPT !.exc[h] = "none"]
     ELSE Throw(close_free([W EXCEPT !.exc[h] = "none"], h), h, ex)

\* JNIEXPORT void JNICALL Java_umontreal_ssj_randvar_RandUnuran_close
RandUnuran_close(W, h) ==
  LET ex == W.exc[h]
  IN IF W.nativeParams[h] = NULL
     THEN Throw([W EXCEPT !.exc[h] = "none"], h, ex)
     ELSE Throw(close_free([W EXCEPT !.exc[h] = "none"], h), h, ex)

(* -------------------------------- init -------------------------------- *)
\* An initClass that creates the default generator on every call.
initClass_default_always(W, h, f) ==
  With(urng_jni_create(W, h, "default", f),
       LAMBDA W1 :
         IF W1.default_urng.urng = NULL
         THEN IF FindClassFails(f) THEN FindClassFailed(W1, h)
              ELSE ThrowNew(W1, h, "cannot create default uniform rng")
         ELSE [W1 EXCEPT !.unurDefault = W1.default_urng.urng])

\* initClass: the creation of the default uniform generator.
initClass_default(W, h, f) ==
  IF W.default_urng.urng # NULL THEN W
  ELSE With(urng_jni_create(W, h, "default", f),
            LAMBDA W1 :
              IF W1.default_urng.urng = NULL
              THEN IF FindClassFails(f) THEN FindClassFailed(W1, h)
                   ELSE ThrowNew(W1, h, "cannot create default uniform rng")
              ELSE [W1 EXCEPT !.unurDefault = W1.default_urng.urng])

\* static int initClass (JNIEnv* env): the world after it and its result.
initClass(W, h, f) ==
  With(initClass_default(W, h, f),
       LAMBDA W2 :
         IF W2.default_urng.urng = NULL THEN [W |-> W2, ok |-> FALSE]
         ELSE IF f.at = "lookup" THEN [W |-> FindClassFailed(W2, h), ok |-> FALSE]
         ELSE [W |-> [W2 EXCEPT !.ids = TRUE], ok |-> TRUE])

\* An init that sets the default block's stream only while it has none.
init_np_keeps_stream(W, h, ms) ==
  LET b == Blk(h, "np")
      gpd == W.default_urng.params
  IN [Alloc(W, b) EXCEPT !.np[h] = ZeroNativeParams, !.nativeParams[h] = b,
                         !.gp[gpd].env = h,
                         !.gp[gpd].rsObj = IF @ = NoObj THEN ms ELSE @]

\* init: np = malloc; memset; SetLongField; the parameter block of the
\* default generator gets env and the mainStream field ms.
init_np(W, h, ms) ==
  LET b == Blk(h, "np")
      gpd == W.default_urng.params
  IN [Alloc(W, b) EXCEPT !.np[h] = ZeroNativeParams, !.nativeParams[h] = b,
                         !.gp[gpd].env = h, !.gp[gpd].rsObj = ms]

\* Java_umontreal_ssj_randvar_RandUnuran_init, up to and including the
\* setting of the default generator's parameter block.  "done" says that the
\* call has returned.
init_setup(W, h, f, ms) ==
  With(initClass(W, h, f),
       LAMBDA c :
         IF ~c.ok THEN [W |-> c.W, done |-> TRUE]
         ELSE IF f.at = "np"
              THEN [W |-> IF FindClassFails(f) THEN FindClassFailed(c.W, h)
                          ELSE ThrowNew(c.W, h, "cannot create UNURAN generator"),
                    done |-> TRUE]
              ELSE [W |-> init_np(c.W, h, ms), done |-> FALSE])

\* unur_str2gen pulls k uniforms from the default generator during setup.
RECURSIVE SetupPulls(_, _, _)
SetupPulls(W, h, k) ==
  IF k = 0 THEN W ELSE SetupPulls(UrngSample(W, h, "setup", W.unurDefault), h, k - 1)

\* The error path of a failed urng_jni_create in init.
init_urng_failed(W, h, f, msg) ==
  IF FindClassFails(f) THEN FindClassFailed(RandUnuran_close(W, h), h)
  ELSE ThrowNew(RandUnuran_close(W, h), h, msg)

\* An init that returns on a missing auxStream reference without calling close.
init_aux_ref_no_close(W, h, f, as) ==
  IF as = NoObj \/ f.at = "NewGlobalRef.aux" THEN W
  ELSE [Alloc(W, Blk(h, "objAuxStream")) EXCEPT
          !.np[h].objAuxStream = as, !.gp[W.np[h].urng_aux.params].rsObj = as]

\* init: the global reference to auxStream, stored in the auxiliary block.
init_aux_ref(W, h, f, as) ==
  IF as = NoObj \/ f.at = "NewGlobalRef.aux" THEN RandUnuran_close(W, h)
  ELSE [Alloc(W, Blk(h, "objAuxStream")) EXCEPT
          !.np[h].objAuxStream = as, !.gp[W.np[h].urng_aux.params].rsObj = as]

\* init: the global reference to mainStream, stored in the main block.
init_main_ref(W, h, f, ms, as) ==
  IF ms = NoObj \/ f.at = "NewGlobalRef.main" THEN RandUnuran_close(W, h)
  ELSE init_aux_ref([Alloc(W, Blk(h, "objMainStream")) EXCEPT
                       !.np[h].objMainStream = ms, !.gp[W.np[h].urng.params].rsObj = ms],
                    h, f, as)

\* init: the auxiliary uniform generator and unur_chg_urng_aux.
init_urng_aux(W, h, f, ms, as) ==
  With(urng_jni_create(W, h, "urng_aux", f),
       LAMBDA W3 :
         IF W3.np[h].urng_aux.urng = NULL
         THEN init_urng_failed(W3, h, f,
                               "cannot allocate uniform auxiliary random number generator.")
         ELSE init_main_ref([W3 EXCEPT !.gen[h].urng_aux = W3.np[h].urng_aux.urng],
                            h, f, ms, as))

\* init: the uniform generator, gp->urng and unur_chg_urng.
init_urng(W, h, f, ms, as) ==
  With(urng_jni_create(W, h, "urng", f),
       LAMBDA W1 :
         IF W1.np[h].urng.urng = NULL
         THEN init_urng_failed(W1, h, f, "cannot allocate uniform random number generator")
         ELSE init_urng_aux([W1 EXCEPT !.gp[W1.np[h].urng.params].urng = W1.np[h].urng.urng,
                                       !.gen[h].urng = W1.np[h].urng.urng],
                            h, f, ms, as))

\* init: unur_str2gen made the generator, of dimension d.
init_gen(W, h, d) ==
  [Alloc(W, Blk(h, "unurgen")) EXCEPT
     !.np[h].unurgen = Blk(h, "unurgen"),
     !.gen[h] = [urng |-> W.unurDefault, urng_aux |-> W.unurDefault],
     !.np[h].dim = d]

\* init: unur_str2gen returned NULL.
init_gen_failed(W, h, f) ==
  IF FindClassFails(f) THEN RandUnuran_close(FindClassFailed(W, h), h)
  ELSE IF f.sub = "errstr"
       THEN ThrowNew(RandUnuran_close(W, h), h, "cannot create UNURAN generator: ")
       ELSE ThrowNew(RandUnuran_close(W, h), h, "cannot create UNURAN generator: unur_errno")

\* Java_umontreal_ssj_randvar_RandUnuran_init from GetStringUTFChars on: the
\* generator string declares dimension d, setup pulls k uniforms.
init_create(W, h, f, d, k, ms, as) ==
  IF f.at = "utf"
  THEN RandUnuran_close(ThrowNew(W, h, "OutOfMemoryError"), h)
  ELSE IF f.at = "str2gen"
       THEN init_gen_failed(SetupPulls(W, h, k), h, f)
       ELSE init_urng(init_gen(SetupPulls(W, h, k), h, d), h, f, ms, as)

(* ----------------------- the sampling entry points -------------------- *)
\* The fake engine: the variate it returns is a fixed function of the
\* uniforms it pulled for it, in order.
RECURSIVE EngineValue(_)
EngineValue(us) ==
  IF us = <<>> THEN 7 ELSE (EngineValue(SubSeq(us, 1, Len(us) - 1)) * 31 + us[Len(us)]) % 9973

Filled(len, x) == [k \in 1..len |-> x]

\* A native call of object h enters and returns.
Enter(W, h, kind) == [W EXCEPT !.op[h] = [NoOp EXCEPT !.kind = kind, !.phase = "running"]]
Returned(W, h) == [W EXCEPT !.op[h].phase = "returned"]
\* Exceptions that may be pending in the thread when close is entered.
EntryExceptions == {"none", "PendingException"}
EnterPending(W, h, e) == [W EXCEPT !.exc[h] = e, !.op[h].ex = e]

\* Java has taken the result of the call (its value or its exception): nothing
\* is pending in the thread, and the records of the call (streams' deliveries,
\* arrays, acquisitions, pulls) are dropped.
Resumed(W, h) ==
  [W EXCEPT !.exc[h] = "none", !.pos[h] = [s \in Streams |-> 0],
            !.jarr[h] = NoArrays, !.pins[h] = NoPins, !.pullLog[h] = <<>>,
            !.op[h] = NoOp]

\* A getRandDisc that installs cons on the auxiliary block as well.
getRandDisc_enter_aux_cons(W, h, u) ==
  LET gm == W.np[h].urng.params
      ga == W.np[h].urng_aux.params
  IN [W EXCEPT !.gp[gm].env = h, !.gp[gm].u = u, !.gp[gm].unif = "cons",
               !.gp[ga].env = h, !.gp[ga].u = u, !.gp[ga].unif = "cons", !.op[h].u = u]

\* getRandDisc, up to the call of unur_sample_discr.
getRandDisc_enter(W, h, u) ==
  LET gm == W.np[h].urng.params
      ga == W.np[h].urng_aux.params
  IN [W EXCEPT !.gp[gm].env = h, !.gp[gm].u = u, !.gp[gm].unif = "cons",
               !.gp[ga].env = h, !.gp[ga].unif = "unif", !.op[h].u = u]

\* A getRandCont that installs unif instead of cons on the main block.
getRandCont_enter_uncached(W, h, u) ==
  LET gm == W.np[h].urng.params
      ga == W.np[h].urng_aux.params
  IN [W EXCEPT !.gp[gm].env = h, !.gp[gm].u = u, !.gp[gm].unif = "unif",
               !.gp[ga].env = h, !.gp[ga].unif = "unif", !.op[h].u = u]

\* A getRandCont that caches u in the default generator's block as well.
getRandCont_enter_sets_default(W, h, u) ==
  LET gm == W.np[h].urng.params
      ga == W.np[h].urng_aux.params
      gpd == W.default_urng.params
  IN [W EXCEPT !.gp[gm].env = h, !.gp[gm].u = u, !.gp[gm].unif = "cons",
               !.gp[ga].env = h, !.gp[ga].unif = "unif", !.op[h].u = u,
               !.gp[gpd].env = h, !.gp[gpd].u = u]

\* getRandCont, up to the call of unur_sample_cont.
getRandCont_enter(W, h, u) ==
  LET gm == W.np[h].urng.params
      ga == W.np[h].urng_aux.params
  IN [W EXCEPT !.gp[gm].env = h, !.gp[gm].u = u, !.gp[gm].unif = "cons",
               !.gp[ga].env = h, !.gp[ga].unif = "unif", !.op[h].u = u]

\* A getRandVec that leaves the main block's callback as the call before
\* left it.
getRandVec_setup_keeps_mode(W, h, u, len) ==
  LET gm == W.np[h].urng.params
      ga == W.np[h].urng_aux.params
  IN [W EXCEPT !.gp[gm].u = u, !.gp[gm].env = h,
               !.gp[ga].env = h, !.gp[ga].unif = "unif", !.op[h].u = u,
               !.jarr[h].vec = Filled(len, Stale)]

\* getRandVec: the setting of the two parameter blocks; jvec has len elements.
getRandVec_setup(W, h, u, len) ==
  LET gm == W.np[h].urng.params
      ga == W.np[h].urng_aux.params
  IN [W EXCEPT !.gp[gm].u = u, !.gp[gm].unif = "cons", !.gp[gm].env = h,
               !.gp[ga].env = h, !.gp[ga].unif = "unif", !.op[h].u = u,
               !.jarr[h].vec = Filled(len, Stale)]

\* A getRandVec without the test of the array's length.
getRandVec_enter_unchecked(W, h, u, len, f) ==
  With(getRandVec_setup(W, h, u, len),
       LAMBDA W2 :
         IF f.at = "GetDoubleArrayElements"
         THEN [W |-> ThrowNew(W2, h, "OutOfMemoryError"), done |-> TRUE]
         ELSE [W |-> [GetDoubleArrayElements(W2, h, "vec") EXCEPT
                        !.op[h].vPtr = NewPtr(W2, h, "vec")],
               done |-> FALSE])

\* getRandVec, up to the call of unur_sample_vec.  "done" says that the call
\* returned without sampling.
getRandVec_enter(W, h, u, len, f) ==
  With(getRandVec_setup(W, h, u, len),
       LAMBDA W2 :
         IF len < W2.np[h].dim
         THEN [W |-> IF FindClassFails(f) THEN FindClassFailed(W2, h)
                     ELSE ThrowNew(W2, h, "array too short"),
               done |-> TRUE]
         ELSE IF f.at = "GetDoubleArrayElements"
              THEN [W |-> ThrowNew(W2, h, "OutOfMemoryError"), done |-> TRUE]
              ELSE [W |-> [GetDoubleArrayElements(W2, h, "vec") EXCEPT
                             !.op[h].vPtr = NewPtr(W2, h, "vec")],
                    done |-> FALSE])

\* getRandVec from the return of unur_sample_vec, which wrote the variate x.
getRandVec_exit(W, h, x) ==
  ReleaseDoubleArrayElements(
    [W EXCEPT !.jarr[h].vec = [k \in DOMAIN @ |->
                                 IF k <= W.np[h].dim THEN x + (k - 1) ELSE @[k]]],
    h, "vec", W.op[h].vPtr)

\* The Java arrays of a batch call: ju and juaux (if given) hold what the
\* caller left in them, jv the output.
BatchArrays(W, h, juaux, start, n) ==
  [W EXCEPT !.jarr[h] = [ju |-> Filled(MaxN, Stale),
                         juaux |-> IF juaux THEN Filled(MaxN, Stale) ELSE <<>>,
                         jv |-> Filled(n + 1, Stale), vec |-> <<>>],
            !.op[h].n = n, !.op[h].start = start, !.op[h].juaux = juaux]

\* getRandDiscArray: the main parameter block is set to deliver from ju.
getRandDiscArray_main(W, h, n) ==
  LET gm == W.np[h].urng.params
  IN [GetDoubleArrayElements(W, h, "ju") EXCEPT
        !.gp[gm].env = h, !.gp[gm].junifArray = "ju",
        !.gp[gm].unifArray = NewPtr(W, h, "ju"), !.op[h].uPtr = NewPtr(W, h, "ju"),
        !.gp[gm].n = n, !.gp[gm].nextIndex = n, !.gp[gm].unif = "arr"]

\* A getRandDiscArray that, without juaux, copies the whole main structure
\* over the auxiliary one (np->urng_aux = np->urng).
getRandDiscArray_aux_whole(W, h, juaux, n) ==
  LET ga == W.np[h].urng_aux.params
  IN IF juaux
     THEN [GetDoubleArrayElements(W, h, "juaux") EXCEPT
             !.op[h].gp = ga,
             !.gp[ga].env = h, !.gp[ga].junifArray = "juaux",
             !.gp[ga].unifArray = NewPtr(W, h, "juaux"),
             !.op[h].uauxPtr = NewPtr(W, h, "juaux"),
             !.gp[ga].n = n, !.gp[ga].nextIndex = n,
             !.gp[W.np[h].urng.params].unif = "arr"]
     ELSE [W EXCEPT !.op[h].gp = ga,
                    !.np[h].urng_aux = W.np[h].urng,
                    !.op[h].uauxPtr = NULL]

\* getRandDiscArray: gp = np->urng_aux.params; if (juaux) {...} else {...}
getRandDiscArray_aux(W, h, juaux, n) ==
  LET ga == W.np[h].urng_aux.params
  IN IF juaux
     THEN [GetDoubleArrayElements(W, h, "juaux") EXCEPT
             !.op[h].gp = ga,
             !.gp[ga].env = h, !.gp[ga].junifArray = "juaux",
             !.gp[ga].unifArray = NewPtr(W, h, "juaux"),
             !.op[h].uauxPtr = NewPtr(W, h, "juaux"),
             !.gp[ga].n = n, !.gp[ga].nextIndex = n,
             !.gp[W.np[h].urng.params].unif = "arr"]
     ELSE [W EXCEPT !.op[h].gp = ga,
                    !.np[h].urng_aux.params = W.np[h].urng.params,
                    !.op[h].uauxPtr = NULL]

\* getRandDiscArray: v = GetIntArrayElements (env, jv, 0)
getRandDiscArray_v(W, h) ==
  [GetDoubleArrayElements(W, h, "jv") EXCEPT !.op[h].vPtr = NewPtr(W, h, "jv")]

\* getRandDiscArray, up to the loop.
getRandDiscArray_enter(W, h, juaux, start, n) ==
  getRandDiscArray_v(
    getRandDiscArray_aux(
      getRandDiscArray_main(BatchArrays(W, h, juaux, start, n), h, n), h, juaux, n), h)

\* A loop turn that writes v[i], ignoring start.
getRandDiscArray_store_at_i(W, h, x) ==
  [W EXCEPT !.jarr[h].jv[W.op[h].i + 1] = x,
            !.op[h].i = @ + 1, !.op[h].samples = @ + 1, !.op[h].pulled = <<>>]

\* One turn of the loop of getRandDiscArray: v[start+i] = the variate x.
getRandDiscArray_store(W, h, x) ==
  [W EXCEPT !.jarr[h].jv[W.op[h].start + W.op[h].i + 1] = x,
            !.op[h].i = @ + 1, !.op[h].samples = @ + 1, !.op[h].pulled = <<>>]

\* An exit that never puts the saved pointer back into np->urng_aux.params.
getRandDiscArray_restore_skipped(W, h) ==
  IF W.op[h].juaux
  THEN ReleaseDoubleArrayElements(W, h, "juaux", W.op[h].uauxPtr)
  ELSE W

\* getRandDiscArray: if (juaux) Release (juaux, uaux) else np->urng_aux.params = gp
getRandDiscArray_restore(W, h) ==
  IF W.op[h].juaux
  THEN ReleaseDoubleArrayElements(W, h, "juaux", W.op[h].uauxPtr)
  ELSE [W EXCEPT !.np[h].urng_aux.params = W.op[h].gp]

\* getRandDiscArray after the loop.
getRandDiscArray_exit(W, h) ==
  ReleaseDoubleArrayElements(
    getRandDiscArray_restore(ReleaseDoubleArrayElements(W, h, "jv", W.op[h].vPtr), h),
    h, "ju", W.op[h].uPtr)

\* A getRandContArray that installs the array with the cursor at 0.
getRandContArray_main_cursor0(W, h, n) ==
  LET gm == W.np[h].urng.params
  IN [GetDoubleArrayElements(W, h, "ju") EXCEPT
        !.gp[gm].env = h, !.gp[gm].junifArray = "ju",
        !.gp[gm].unifArray = NewPtr(W, h, "ju"), !.op[h].uPtr = NewPtr(W, h, "ju"),
        !.gp[gm].n = n, !.gp[gm].nextIndex = 0, !.gp[gm].unif = "arr"]

\* getRandContArray: the main parameter block is set to deliver from ju.
getRandContArray_main(W, h, n) ==
  LET gm == W.np[h].urng.params
  IN [GetDoubleArrayElements(W, h, "ju") EXCEPT
        !.gp[gm].env = h, !.gp[gm].junifArray = "ju",
        !.gp[gm].unifArray = NewPtr(W, h, "ju"), !.op[h].uPtr = NewPtr(W, h, "ju"),
        !.gp[gm].n = n, !.gp[gm].nextIndex = n, !.gp[gm].unif = "arr"]

\* getRandContArray: gp = np->urng_aux.params; if (juaux) {...} else {...}
getRandContArray_aux(W, h, juaux, n) ==
  LET ga == W.np[h].urng_aux.params
  IN IF juaux
     THEN [GetDoubleArrayElements(W, h, "juaux") EXCEPT
             !.op[h].gp = ga,
             !.gp[ga].env = h, !.gp[ga].junifArray = "juaux",
             !.gp[ga].unifArray = NewPtr(W, h, "juaux"),
             !.op[h].uauxPtr = NewPtr(W, h, "juaux"),
             !.gp[ga].n = n, !.gp[ga].nextIndex = n,
             !.gp[W.np[h].urng.params].unif = "arr"]
     ELSE [W EXCEPT !.op[h].gp = ga,
                    !.np[h].urng_aux.params = W.np[h].urng.params,
                    !.op[h].uauxPtr = NULL]

\* getRandContArray: v = GetDoubleArrayElements (env, jv, 0)
getRandContArray_v(W, h) ==
  [GetDoubleArrayElements(W, h, "jv") EXCEPT !.op[h].vPtr = NewPtr(W, h, "jv")]

\* getRandContArray, up to the loop.
getRandContArray_enter(W, h, juaux, start, n) ==
  getRandContArray_v(
    getRandContArray_aux(
      getRandContArray_main(BatchArrays(W, h, juaux, start, n), h, n), h, juaux, n), h)

\* One turn of the loop of getRandContArray: v[start+i] = the variate x.
getRandContArray_store(W, h, x) ==
  [W EXCEPT !.jarr[h].jv[W.op[h].start + W.op[h].i + 1] = x,
            !.op[h].i = @ + 1, !.op[h].samples = @ + 1, !.op[h].pulled = <<>>]

\* An exit that never puts the saved pointer back into np->urng_aux.params.
getRandContArray_restore_skipped(W, h) ==
  IF W.op[h].juaux
  THEN ReleaseDoubleArrayElements(W, h, "juaux", W.op[h].uauxPtr)
  ELSE W

\* getRandContArray: if (juaux) Release (juaux, uaux) else np->urng_aux.params = gp
getRandContArray_restore(W, h) ==
  IF W.op[h].juaux
  THEN ReleaseDoubleArrayElements(W, h, "juaux", W.op[h].uauxPtr)
  ELSE [W EXCEPT !.np[h].urng_aux.params = W.op[h].gp]

\* getRandContArray after the loop.
getRandContArray_exit(W, h) ==
  ReleaseDoubleArrayElements(
    getRandContArray_restore(ReleaseDoubleArrayElements(W, h, "jv", W.op[h].vPtr), h),
    h, "ju", W.op[h].uPtr)

(* ---------------------- the classification queries ------------------- *)
\* What the five queries share: np = GetLongField; if (!np) return JNI_FALSE;
\* distr = unur_get_distr (np->unurgen); return the engine's answer ans.
query(W, h, ans) ==
  IF W.nativeParams[h] = NULL THEN [W EXCEPT !.op[h].result = 0]
  ELSE [W EXCEPT !.op[h].distr = W.np[h].unurgen, !.op[h].result = IF ans THEN 1 ELSE 0]

\* An isDiscrete without the test of np against NULL.
isDiscrete_unchecked(W, h, ans) ==
  [W EXCEPT !.op[h].distr = W.np[h].unurgen, !.op[h].result = IF ans THEN 1 ELSE 0]

\* ans is unur_distr_is_discr (distr)
isDiscrete(W, h, ans) == query(W, h, ans)
\* ans is unur_distr_is_cont (distr)
isContinuous(W, h, ans) == query(W, h, ans)
\* ans is unur_distr_is_cvec (distr)
isContinuousMultivariate(W, h, ans) == query(W, h, ans)
\* ans is unur_distr_is_cemp (distr)
isEmpirical(W, h, ans) == query(W, h, ans)
\* ans is unur_distr_is_cvemp (distr)
isEmpiricalMultivariate(W, h, ans) == query(W, h, ans)

Queries == {"isDiscrete", "isContinuous", "isContinuousMultivariate", "isEmpirical",
            "isEmpiricalMultivariate"}
RandUnuran_query(W, h, q, ans) ==
  CASE q = "isDiscrete" -> isDiscrete(W, h, ans)
    [] q = "isContinuous" -> isContinuous(W, h, ans)
    [] q = "isContinuousMultivariate" -> isContinuousMultivariate(W, h, ans)
    [] q = "isEmpirical" -> isEmpirical(W, h, ans)
    [] q = "isEmpiricalMultivariate" -> isEmpiricalMultivariate(W, h, ans)

(* ------------------------- the life of an object ---------------------- *)
\* The object named h, finalized, is collected and a new RandUnuran object
\* takes the name: what it will allocate has not been allocated yet.
Renewed(W, h) ==
  [W EXCEPT !.heap = [b \in DOMAIN @ |-> IF b[1] = h THEN "unalloc" ELSE @[b]],
            !.rel[h] = <<>>, !.held[h] = <<>>]

(* ------------------------------ actions ------------------------------- *)
Ready(h) == pc[h] = "idle" /\ nativeParams[h] # NULL
SetupFailures == {f \in Failures : f.at \in {"none", "default.params", "default.urng",
                                             "lookup", "np"}}
CreateFailures == {f \in Failures : f.at \notin {"default.params", "default.urng",
                                                 "lookup", "np"}}
VecFailures == [at : {"none", "GetDoubleArrayElements"}, sub : {"none", "findclass"}]
Frame == UNCHANGED <<mainStream, auxStream>>

\* The constructor of object h calls init: the call up to the setting of the
\* default generator's parameter block.
Construct(h) ==
  /\ pc[h] = "new"
  /\ \E f \in SetupFailures :
       LET r == init_setup(Enter(World, h, "init"), h, f, mainStream[h])
       IN /\ Commit(IF r.done THEN Returned(r.W, h) ELSE r.W)
          /\ pc' = [pc EXCEPT ![h] = IF r.done THEN "returned" ELSE "constructing"]
  /\ calls' = [calls EXCEPT !.overlap =
                 [g \in Handles |->
                    IF g = h THEN \E x \in Handles \ {h} : pc[x] = "constructing"
                    ELSE @[g] \/ pc[g] = "constructing"]]
  /\ Frame

\* unif was called during the setup of h with the JNIEnv and the local
\* reference that the init call of another thread stored in the default
\* block: what the calls delivered is indeterminate.
ForeignEnv(W, h) ==
  [W EXCEPT !.pullLog[h] =
     [j \in DOMAIN @ |-> IF @[j].slot = "setup" THEN [@[j] EXCEPT !.val = Undef] ELSE @[j]]]

\* The rest of the init call of object h.  When another init call has set the
\* default block since (foreign), the setup's pulls may also go wrong.
ConstructFinish(h) ==
  /\ pc[h] = "constructing"
  /\ \E f \in CreateFailures, d \in Dims, k \in 0..MaxSetupPulls, foreign \in BOOLEAN :
       /\ k = 0 \/ gp[urngParams[unurDefault]].rsObj # NoObj
       /\ foreign => (k >= 1 /\ f.at # "utf" /\ gp[urngParams[unurDefault]].env # h)
       /\ Commit(Returned(IF foreign
                           THEN ForeignEnv(init_create(World, h, f, d, k,
                                                       mainStream[h], auxStream[h]), h)
                           ELSE init_create(World, h, f, d, k, mainStream[h], auxStream[h]),
                           h))
  /\ pc' = [pc EXCEPT ![h] = "returned"]
  /\ UNCHANGED calls
  /\ Frame

\* close is called on object h, by the program, by the finalizer or by
\* native code that has an exception e pending.
Close(h) ==
  /\ pc[h] = "idle"
  /\ calls.close[h] < MaxCloses
  /\ \E e \in EntryExceptions :
       Commit(Returned(RandUnuran_close(EnterPending(Enter(World, h, "close"), h, e), h), h))
  /\ calls' = [calls EXCEPT !.close[h] = @ + 1]
  /\ pc' = [pc EXCEPT ![h] = "returned"]
  /\ Frame

SampleDisc(h) ==
  /\ Ready(h)
  /\ \E u \in Prefetched : Commit(getRandDisc_enter(Enter(World, h, "disc"), h, u))
  /\ pc' = [pc EXCEPT ![h] = "engine"]
  /\ UNCHANGED calls
  /\ Frame

SampleCont(h) ==
  /\ Ready(h)
  /\ \E u \in Prefetched : Commit(getRandCont_enter(Enter(World, h, "cont"), h, u))
  /\ pc' = [pc EXCEPT ![h] = "engine"]
  /\ UNCHANGED calls
  /\ Frame

SampleVec(h) ==
  /\ Ready(h)
  /\ \E u \in Prefetched, len \in VecLens, f \in VecFailures :
       /\ (f.sub = "findclass") => (f.at = "none" /\ len < np[h].dim)
       /\ (f.at = "GetDoubleArrayElements") => (len >= np[h].dim)
       /\ LET r == getRandVec_enter(Enter(World, h, "vec"), h, u, len, f)
          IN /\ Commit(IF r.done THEN Returned(r.W, h) ELSE r.W)
             /\ pc' = [pc EXCEPT ![h] = IF r.done THEN "returned" ELSE "engine"]
  /\ UNCHANGED calls
  /\ Frame

SampleDiscArray(h) ==
  /\ Ready(h)
  /\ \E juaux \in BOOLEAN, n \in 0..MaxN :
       \E start \in 0..1 :
         LET W1 == getRandDiscArray_enter(Enter(World, h, "discArray"), h, juaux, start, n)
         IN /\ Commit(IF n = 0 THEN Returned(getRandDiscArray_exit(W1, h), h) ELSE W1)
            /\ pc' = [pc EXCEPT ![h] = IF n = 0 THEN "returned" ELSE "engine"]
  /\ UNCHANGED calls
  /\ Frame

SampleContArray(h) ==
  /\ Ready(h)
  /\ \E juaux \in BOOLEAN, n \in 0..MaxN :
       \E start \in 0..1 :
         LET W1 == getRandContArray_enter(Enter(World, h, "contArray"), h, juaux, start, n)
         IN /\ Commit(IF n = 0 THEN Returned(getRandContArray_exit(W1, h), h) ELSE W1)
            /\ pc' = [pc EXCEPT ![h] = IF n = 0 THEN "returned" ELSE "engine"]
  /\ UNCHANGED calls
  /\ Frame

\* The engine, computing a variate for object h, pulls a uniform from its
\* uniform generator (slot "urng") or its auxiliary one (slot "urng_aux").
Pull(h, slot) ==
  /\ pc[h] = "engine"
  /\ Len(pullLog[h]) < MaxPulls
  /\ LET W1 == UrngSample(World, h, slot, gen[h][slot])
     IN Commit([W1 EXCEPT !.op[h].pulled = Append(@, W1.pullLog[h][Len(W1.pullLog[h])].val)])
  /\ UNCHANGED <<pc, calls>>
  /\ Frame

\* What the entry point does once the engine has returned the variate x.
AfterSample(W, h, x) ==
  CASE W.op[h].kind \in {"disc", "cont"} ->
         Returned([W EXCEPT !.op[h].result = x, !.op[h].samples = 1], h)
    [] W.op[h].kind = "vec" ->
         Returned([getRandVec_exit(W, h, x) EXCEPT !.op[h].samples = 1], h)
    [] W.op[h].kind = "discArray" ->
         LET W1 == getRandDiscArray_store(W, h, x)
         IN IF W1.op[h].i < W1.op[h].n THEN W1
            ELSE Returned(getRandDiscArray_exit(W1, h), h)
    [] W.op[h].kind = "contArray" ->
         LET W1 == getRandContArray_store(W, h, x)
         IN IF W1.op[h].i < W1.op[h].n THEN W1
            ELSE Returned(getRandContArray_exit(W1, h), h)

\* The engine returns the variate of object h.
EngineReturn(h) ==
  /\ pc[h] = "engine"
  /\ LET W1 == AfterSample(World, h, EngineValue(op[h].pulled))
     IN /\ Commit(W1)
        /\ pc' = [pc EXCEPT ![h] = IF W1.op[h].phase = "returned" THEN "returned" ELSE "engine"]
        /\ calls' = [calls EXCEPT !.sampled[h] = @ \/ W1.op[h].phase = "returned"]
  /\ Frame

\* A classification query is called on object h; the engine, if asked,
\* answers ans.
Query(h) ==
  /\ pc[h] = "idle"
  /\ \E q \in Queries, ans \in BOOLEAN :
       Commit(Returned(RandUnuran_query(Enter(World, h, q), h, q, ans), h))
  /\ pc' = [pc EXCEPT ![h] = "returned"]
  /\ UNCHANGED calls
  /\ Frame

\* The finalized object h gives way to a new object with streams ms and as.
Renew(h) ==
  /\ pc[h] = "idle"
  /\ nativeParams[h] = NULL
  /\ calls.close[h] >= 1
  /\ calls.lives[h] < MaxLives
  /\ Commit(Renewed(World, h))
  /\ \E ms \in Streams \cup {NoObj}, as \in AuxStreams \cup {NoObj} :
       /\ mainStream' = [mainStream EXCEPT ![h] = ms]
       /\ auxStream' = [auxStream EXCEPT ![h] = as]
  /\ calls' = [close |-> [calls.close EXCEPT ![h] = 0],
               sampled |-> [calls.sampled EXCEPT ![h] = FALSE],
               lives |-> [calls.lives EXCEPT ![h] = @ + 1],
               prev |-> [calls.prev EXCEPT ![h] = mainStream[h]],
               overlap |-> [calls.overlap EXCEPT ![h] = FALSE]]
  /\ pc' = [pc EXCEPT ![h] = "new"]

\* The call of object h has returned; Java goes on.
Resume(h) ==
  /\ pc[h] = "returned"
  /\ Commit(Resumed(World, h))
  /\ pc' = [pc EXCEPT ![h] = "idle"]
  /\ UNCHANGED calls
  /\ Frame

Next ==
  \E h \in Handles :
    \/ Resume(h)
    \/ Construct(h)
    \/ ConstructFinish(h)
    \/ Close(h)
    \/ SampleDisc(h)
    \/ SampleCont(h)
    \/ SampleVec(h)
    \/ SampleDiscArray(h)
    \/ SampleContArray(h)
    \/ Pull(h, "urng")
    \/ Pull(h, "urng_aux")
    \/ EngineReturn(h)
    \/ Query(h)

Spec == Init /\ [][Next]_vars

\* Objects constructed one after the other: construction, queries, close and
\* the replacement of a finalized object by a new one.
NextLife ==
  \E h \in Handles :
    \/ Resume(h)
    \/ Construct(h)
    \/ ConstructFinish(h)
    \/ Close(h)
    \/ Query(h)
    \/ Renew(h)

LifeSpec == Init /\ [][NextLife]_vars

\* Two objects in use at once, every step of one interleaved with the steps
\* of the other: construction, single-value calls and batch calls of one
\* value without auxiliary array, with at most MaxPairPulls uniforms pulled
\* per call.
PairSampleDiscArray(h) ==
  SampleDiscArray(h) /\ op'[h].n = 1 /\ op'[h].start = 0 /\ ~op'[h].juaux
PairPull(h, slot) == Len(pullLog[h]) < MaxPairPulls /\ Pull(h, slot)
\* The generator strings of these runs declare dimension 1.
PairConstructFinish(h) == ConstructFinish(h) /\ np'[h].dim # 2

NextPair ==
  \E h \in Handles :
    \/ Resume(h)
    \/ Construct(h)
    \/ PairConstructFinish(h)
    \/ SampleCont(h)
    \/ PairSampleDiscArray(h)
    \/ PairPull(h, "urng")
    \/ PairPull(h, "urng_aux")
    \/ EngineReturn(h)

PairSpec == PairInit /\ [][NextPair]_vars

(* ============================== claims =============================== *)
HandleBlocks(h) == {Blk(h, k) : k \in HandleKinds}
\* init ran to its end for h: the last thing it allocates has been allocated.
Constructed(h) == heap[Blk(h, "objAuxStream")] # "unalloc"
InitReturned(h) == pc[h] = "returned" /\ op[h].kind = "init"
CloseStep(h) == calls'.close[h] = calls.close[h] + 1
NoDuplicates(q) == \A i, j \in 1..Len(q) : q[i] = q[j] => i = j
PrimaryPulls(h) == SelectSeq(pullLog[h], LAMBDA e : e.slot = "urng")
AuxPulls(h) == SelectSeq(pullLog[h], LAMBDA e : e.slot = "urng_aux")
SingleCall(h) == op[h].kind \in {"disc", "cont", "vec"}
BatchCall(h) == op[h].kind \in {"discArray", "contArray"}

\* C1: close is idempotent.  Once a close call has returned on an object,
\* whether its construction succeeded or failed, a further close call on it
\* (by the program or by the finalizer) releases nothing, changes no native
\* state and leaves pending exactly what was pending when it was entered.
C1_CloseIdempotent ==
  [][\A h \in Handles :
       (CloseStep(h) /\ calls.close[h] >= 1) =>
         /\ heap' = heap /\ rel' = rel /\ nativeParams' = nativeParams
         /\ np' = np /\ gp' = gp /\ urngParams' = urngParams /\ gen' = gen
         /\ default_urng' = default_urng /\ unurDefault' = unurDefault
         /\ held' = held /\ exc'[h] = op'[h].ex]_vars

\* A second close has returned on an object that was constructed and closed.
C1_Witness ==
  \E h \in Handles : /\ calls.close[h] = 2 /\ pc[h] = "returned"
                     /\ heap[Blk(h, "np")] = "freed" /\ Constructed(h)

\* C2: over construct (successful), sampling calls and one or more closes,
\* every native resource of the object (np, the engine, the two urngs, their
\* two parameter blocks, the two global references) is released exactly
\* once: after a close none is live any more, and none is ever released twice.
C2_ReleasedExactlyOnce ==
  \A h \in Handles :
    /\ \A b \in Blocks : heap[b] # "dfree"
    /\ (Constructed(h) /\ calls.close[h] >= 1) =>
         /\ \A b \in HandleBlocks(h) : heap[b] = "freed"
         /\ Len(rel[h]) = Cardinality(HandleBlocks(h))
         /\ NoDuplicates(rel[h])
    /\ (Constructed(h) /\ calls.close[h] = 0) =>
         /\ \A b \in HandleBlocks(h) : heap[b] = "live"
         /\ rel[h] = <<>>
         /\ np[h].urng.params = Blk(h, "urng.params")
         /\ (pc[h] = "idle") => (np[h].urng_aux.params = Blk(h, "urng_aux.params"))

\* A constructed object ran sampling calls and was then closed twice.
C2_Witness ==
  \E h \in Handles : /\ Constructed(h) /\ calls.sampled[h] /\ calls.close[h] = 2
                     /\ \A b \in HandleBlocks(h) : heap[b] = "freed"

\* C3: when init fails at any step, everything the call allocated for the
\* object has been released when it returns, the nativeParams field is null,
\* and a later close releases nothing more.
C3_FailedConstructReleases ==
  \A h \in Handles :
    (pc[h] \in {"returned", "idle"} /\ ~Constructed(h)) =>
      /\ nativeParams[h] = NULL
      /\ \A b \in HandleBlocks(h) : heap[b] \in {"unalloc", "freed"}
      /\ \A b \in Blocks : heap[b] # "dfree"
      /\ NoDuplicates(rel[h])
      /\ np[h] = ZeroNativeParams /\ gen[h] = NoGen

\* init failed while acquiring the reference to auxStream, after everything
\* else had been allocated, and close was called afterwards.
C3_Witness ==
  \E h \in Handles : /\ ~Constructed(h) /\ calls.close[h] >= 1
                     /\ heap[Blk(h, "objMainStream")] = "freed"
                     /\ heap[Blk(h, "urng_aux.urng")] = "freed"
                     /\ heap[Blk(h, "np")] = "freed"

\* C4: every init call ends either with the object Ready and nothing
\* thrown, or with the object Failed (nativeParams null) and an exception
\* thrown to the caller, whichever step failed.
C4_ConstructOutcome ==
  \A h \in Handles :
    InitReturned(h) =>
      \/ nativeParams[h] # NULL /\ Constructed(h) /\ exc[h] = "none"
      \/ nativeParams[h] = NULL /\ exc[h] # "none"

\* C5: cached-value mode.  In a single-value call the value u is installed
\* with cons; the first pull from the main generator is served by cons, is
\* exactly u and switches the block to unif; every later pull of the call is
\* served by unif, calls nextDouble on the main stream and is not u.
C5_CachedValueMode ==
  \A h \in Handles :
    (SingleCall(h) /\ pc[h] \in {"engine", "returned"}) =>
      LET P == PrimaryPulls(h)
          g == gp[Blk(h, "urng.params")]
      IN /\ Len(P) = 0 => (g.unif = "cons" /\ g.u = op[h].u)
         /\ Len(P) >= 1 => /\ P[1].fn = "cons" /\ P[1].val = op[h].u /\ P[1].rs = NoObj
                           /\ g.unif = "unif"
         /\ \A j \in 2..Len(P) :
              /\ P[j].fn = "unif" /\ P[j].rs = mainStream[h]
              /\ P[j].val # op[h].u
              /\ \E k \in 0..MaxPulls : P[j].val = StreamValue(mainStream[h], k)

\* The engine has pulled twice from the main generator in one single-value call.
C5_Witness ==
  \E h \in Handles : SingleCall(h) /\ Len(PrimaryPulls(h)) >= 2

\* C6: in a single-value call during which the engine pulls k >= 1 uniforms
\* from the main generator, the first one is the prefetched u and the main
\* generator makes exactly k-1 nextDouble callbacks, all on the main stream;
\* with k = 1 (and no auxiliary pull) no callback at all is made and the
\* variate is the engine's function of u alone.
C6_PrefetchedThenCallbacks ==
  \A h \in Handles :
    (SingleCall(h) /\ pc[h] = "returned" /\ Len(PrimaryPulls(h)) >= 1) =>
      LET P == PrimaryPulls(h)
          k == Len(P)
          back == {j \in 1..k : P[j].rs # NoObj}
      IN /\ P[1].val = op[h].u
         /\ Cardinality(back) = k - 1
         /\ \A j \in back : P[j].rs = mainStream[h]
         /\ AuxPulls(h) = <<>> =>
              /\ pos[h][mainStream[h]] = k - 1
              /\ \A s \in Streams \ {mainStream[h]} : pos[h][s] = 0
         /\ (k = 1 /\ AuxPulls(h) = <<>>) =>
              /\ \A s \in Streams : pos[h][s] = 0
              /\ op[h].kind \in {"disc", "cont"} => op[h].result = EngineValue(<<op[h].u>>)
              /\ op[h].kind = "vec" => jarr[h].vec[1] = EngineValue(<<op[h].u>>)

\* getRandCont returned after the engine pulled the prefetched uniform only.
C6_Witness ==
  \E h \in Handles : /\ op[h].kind = "cont" /\ pc[h] = "returned"
                     /\ Len(pullLog[h]) = 1 /\ pullLog[h][1].slot = "urng"
                     /\ op[h].result = EngineValue(<<op[h].u>>)

\* C7: array mode.  In a batch call of n values every pull from the main
\* generator is served by arr; pulls 1, n+1, 2n+1, ... and no others refill
\* the array from the main stream (offset 0, count n: elements past n keep
\* what the caller left); the pulls since the last refill delivered ju[0],
\* ju[1], ... in order and the cursor stands behind the last one delivered.
C7_ArrayMode ==
  \A h \in Handles :
    (BatchCall(h) /\ pc[h] \in {"engine", "returned"}) =>
      LET P == PrimaryPulls(h)
          n == op[h].n
          g == gp[Blk(h, "urng.params")]
          ju == jarr[h].ju
      IN /\ Len(P) >= 1 => n >= 1
         /\ \A j \in 1..Len(P) :
              /\ P[j].fn = "arr"
              /\ P[j].refill <=> ((j - 1) % n = 0)
              /\ P[j].rs = IF P[j].refill THEN mainStream[h] ELSE NoObj
              /\ ((j - 1) \div n = (Len(P) - 1) \div n) => P[j].val = ju[((j - 1) % n) + 1]
              /\ (AuxPulls(h) = <<>> \/ auxStream[h] # mainStream[h])
                   => P[j].val = StreamValue(mainStream[h], j - 1)
         /\ Len(P) >= 1 => g.nextIndex = ((Len(P) - 1) % n) + 1
         /\ \A k \in (n + 1)..Len(ju) : ju[k] = Stale

\* A batch call of n = 2 values in which the engine has made its third pull,
\* which refilled the array and left the cursor behind element 0.
C7_Witness ==
  \E h \in Handles : /\ BatchCall(h) /\ op[h].n = 2 /\ Len(PrimaryPulls(h)) = 3
                     /\ PrimaryPulls(h)[3].refill
                     /\ gp[Blk(h, "urng.params")].nextIndex = 1

\* C8: a batch call installs the array with the cursor at its length, so the
\* first pull from the main generator fills the array from the main stream
\* and nothing the array held at installation reaches the engine.
C8_FirstPullFills ==
  \A h \in Handles :
    (BatchCall(h) /\ pc[h] \in {"engine", "returned"}) =>
      LET P == PrimaryPulls(h)
          g == gp[Blk(h, "urng.params")]
      IN /\ (pc[h] = "engine" /\ Len(P) = 0) =>
              (g.unif = "arr" /\ g.n = op[h].n /\ g.nextIndex = g.n /\ g.junifArray = "ju")
         /\ Len(P) >= 1 => (P[1].refill /\ P[1].rs = mainStream[h])
         /\ \A j \in 1..Len(pullLog[h]) : pullLog[h][j].val \notin {Stale, Undef}

\* The first pull of a batch call has been served.
C8_Witness ==
  \E h \in Handles : /\ BatchCall(h) /\ pc[h] = "engine" /\ Len(PrimaryPulls(h)) = 1
                     /\ jarr[h].ju[1] = StreamValue(mainStream[h], 0)

\* The uniforms the engine pulled while drawing sample i of a batch call.
SampleVals(h, i) ==
  LET q == SelectSeq(pullLog[h], LAMBDA e : e.sample = i)
  IN [j \in 1..Len(q) |-> q[j].val]
OnePrimaryPerSample(h) ==
  \A i \in 0..(op[h].n - 1) :
    Len(SelectSeq(PrimaryPulls(h), LAMBDA e : e.sample = i)) = 1

\* C9: a batch call of n values in which the engine pulls one uniform from
\* the main generator per sample samples n times, writes sample i to
\* v[start+i], leaves the rest of v alone, serves sample i from ju[i] and
\* makes exactly one nextArrayOfDouble call on the main stream.
C9_BatchOneUniformPerSample ==
  \A h \in Handles :
    (BatchCall(h) /\ pc[h] = "returned" /\ exc[h] = "none" /\ OnePrimaryPerSample(h)) =>
      LET n == op[h].n
          start == op[h].start
          jv == jarr[h].jv
          P == PrimaryPulls(h)
      IN /\ op[h].samples = n
         /\ Len(P) = n
         /\ \A i \in 0..(n - 1) :
              /\ jv[start + i + 1] = EngineValue(SampleVals(h, i))
              /\ P[i + 1].sample = i /\ P[i + 1].val = jarr[h].ju[i + 1]
         /\ \A k \in 1..Len(jv) : (k <= start \/ k > start + n) => jv[k] = Stale
         /\ Cardinality({j \in 1..Len(pullLog[h]) :
                           pullLog[h][j].refill /\ pullLog[h][j].slot = "urng"})
              = (IF n = 0 THEN 0 ELSE 1)

\* A batch call of two values at start = 1 returned, one pull per sample.
C9_Witness ==
  \E h \in Handles : /\ op[h].kind = "discArray" /\ pc[h] = "returned"
                     /\ op[h].n = 2 /\ op[h].start = 1 /\ op[h].samples = 2
                     /\ Len(pullLog[h]) = 2 /\ OnePrimaryPerSample(h)
                     /\ jarr[h].jv[3] = EngineValue(<<jarr[h].ju[2]>>)

\* C10: in a batch call given an auxiliary array the auxiliary block is in
\* array mode: every pull from the auxiliary generator is served by arr from
\* juaux and none of them is a nextDouble call.
C10_AuxArrayMode ==
  \A h \in Handles :
    (BatchCall(h) /\ op[h].juaux /\ pc[h] \in {"engine", "returned"}) =>
      /\ gp[Blk(h, "urng_aux.params")].unif = "arr"
      /\ \A j \in 1..Len(AuxPulls(h)) :
           /\ AuxPulls(h)[j].fn = "arr"
           /\ AuxPulls(h)[j].val = jarr[h].juaux[gp[Blk(h, "urng_aux.params")].nextIndex]

\* C11: in a batch call without an auxiliary array the auxiliary generator
\* delivers from the main parameter block: every uniform the engine pulls
\* from its auxiliary source comes through arr from ju, with the cursor the
\* main source uses.
C11_AuxSharesPrimaryBlock ==
  \A h \in Handles :
    (BatchCall(h) /\ ~op[h].juaux /\ pc[h] \in {"engine", "returned"}) =>
      \A j \in 1..Len(AuxPulls(h)) :
        /\ AuxPulls(h)[j].params = Blk(h, "urng.params")
        /\ AuxPulls(h)[j].fn = "arr"

\* C12: when a batch call has returned, np->urng_aux.params is again the
\* auxiliary generator's own block, distinct from the main one; and once the
\* object is closed each of the two blocks has been released exactly once.
C12_AuxBlockRestored ==
  \A h \in Handles :
    /\ (BatchCall(h) /\ pc[h] = "returned") =>
         /\ np[h].urng_aux.params = Blk(h, "urng_aux.params")
         /\ np[h].urng_aux.params = op[h].gp
         /\ np[h].urng.params = Blk(h, "urng.params")
         /\ np[h].urng_aux.params # np[h].urng.params
    /\ (Constructed(h) /\ calls.close[h] >= 1) =>
         \A b \in {Blk(h, "urng.params"), Blk(h, "urng_aux.params")} :
           /\ heap[b] = "freed"
           /\ Cardinality({i \in 1..Len(rel[h]) : rel[h][i] = b}) = 1

\* getRandContArray without an auxiliary array has drawn a sample and returned.
C12_Witness ==
  \E h \in Handles : /\ op[h].kind = "contArray" /\ pc[h] = "returned"
                     /\ ~op[h].juaux /\ op[h].samples >= 1
                     /\ op[h].gp = Blk(h, "urng_aux.params")
                     /\ np[h].urng_aux.params = Blk(h, "urng_aux.params")

\* getRandVec was called with an array shorter than the dimension and returned.
VecTooShort(h) ==
  op[h].kind = "vec" /\ pc[h] = "returned" /\ Len(jarr[h].vec) < np[h].dim
\* What such a call must leave alone: no sample, no pull, no stream called,
\* no acquisition of the array's elements, no element written.
VecUntouched(h) ==
  /\ op[h].samples = 0
  /\ pullLog[h] = <<>>
  /\ \A s \in Streams : pos[h][s] = 0
  /\ pins[h].made["vec"] = 0
  /\ \A k \in 1..Len(jarr[h].vec) : jarr[h].vec[k] = Stale

\* C13, as stated: getRandVec with an array shorter than the dimension ends
\* with the "array too short" exception thrown, without sampling, pulling or
\* writing to the array.
C13_TooShortThrowsArrayTooShort ==
  \A h \in Handles :
    VecTooShort(h) => (exc[h] = "array too short" /\ VecUntouched(h))

\* C13, amended: getRandVec with an array shorter than the dimension ends
\* with an exception pending, "array too short" or, when the lookup of the
\* exception class fails, the JVM's NoClassDefFoundError, without sampling,
\* pulling or writing to the array.
C13_TooShortFailsFast ==
  \A h \in Handles :
    VecTooShort(h) =>
      /\ exc[h] \in {"array too short", "NoClassDefFoundError"}
      /\ VecUntouched(h)

\* getRandVec has thrown "array too short" on an array of length 1 for a
\* generator of dimension 2.
C13_Witness ==
  \E h \in Handles : /\ VecTooShort(h) /\ exc[h] = "array too short"
                     /\ Len(jarr[h].vec) = 1 /\ np[h].dim = 2

\* C14: close preserves a pending exception.  Whatever was pending when
\* close was entered is pending when it returns, on the path that finds the
\* field null and on the path that frees; by then nothing of the object is
\* left allocated and the field is null.
C14_ClosePreservesPending ==
  \A h \in Handles :
    (op[h].kind = "close" /\ pc[h] = "returned") =>
      /\ exc[h] = op[h].ex
      /\ nativeParams[h] = NULL
      /\ \A b \in HandleBlocks(h) : heap[b] \in {"unalloc", "freed"}

\* A second close, entered with an exception pending, found the field null
\* and returned with that exception pending.
C14_Witness ==
  \E h \in Handles : /\ op[h].kind = "close" /\ pc[h] = "returned"
                     /\ calls.close[h] = 2 /\ Constructed(h)
                     /\ op[h].ex = "PendingException" /\ exc[h] = "PendingException"

\* C15: a classification query on an object whose nativeParams field is
\* null (init failed, or close was called) returns false, throws nothing and
\* does not ask the engine.
C15_QueryOnClosedIsFalse ==
  \A h \in Handles :
    (op[h].kind \in Queries /\ pc[h] = "returned" /\ nativeParams[h] = NULL) =>
      /\ op[h].result = 0
      /\ exc[h] = "none"
      /\ op[h].distr = NULL

\* A query has returned false on an object that was constructed and closed.
C15_Witness ==
  \E h \in Handles : /\ op[h].kind \in Queries /\ pc[h] = "returned"
                     /\ Constructed(h) /\ calls.close[h] >= 1
                     /\ nativeParams[h] = NULL /\ op[h].result = 0

\* C16: when a batch call has returned, the main parameter block delivers by
\* unif again and no parameter block of the object is left delivering by arr
\* from the released array.
C16_BatchLeavesCallThrough ==
  \A h \in Handles :
    (BatchCall(h) /\ pc[h] = "returned") =>
      /\ gp[Blk(h, "urng.params")].unif = "unif"
      /\ gp[Blk(h, "urng_aux.params")].unif # "arr"

\* C17: when a batch call has returned, every acquisition of array elements
\* made during it (at entry and after each refill) has been released, and
\* no release named an acquisition that was not held.
C17_AcquisitionsReleasedOnce ==
  \A h \in Handles :
    (BatchCall(h) /\ pc[h] = "returned") =>
      (pins[h].live = {} /\ pins[h].stale = 0)

\* The default generator exists: initClass created it.
DefaultPresent == default_urng.urng # NULL
\* The uniforms unur_str2gen pulled during the init call of h.
SetupPullsOf(h) == SelectSeq(pullLog[h], LAMBDA e : e.slot = "setup")

\* C18: the default generator is created at most once, is UNURAN's default
\* urng from then on, and no later init or close creates it again, changes
\* it or frees it; during every init call its parameter block refers to the
\* mainStream of the object being constructed, and the uniforms unur_str2gen
\* pulls come from that stream.
C18_DefaultAdapterOnce ==
  [][/\ heap'[DefaultUrng] \in {"unalloc", "live"}
     /\ heap'[DefaultParams] \in {"unalloc", "live", "freed"}
     /\ DefaultPresent =>
          /\ default_urng' = default_urng /\ unurDefault' = unurDefault
          /\ urngParams'[DefaultUrng] = urngParams[DefaultUrng]
     /\ DefaultPresent' =>
          /\ default_urng' = [urng |-> DefaultUrng, params |-> DefaultParams]
          /\ unurDefault' = DefaultUrng
          /\ urngParams'[DefaultUrng] = DefaultParams
          /\ heap'[DefaultUrng] = "live" /\ heap'[DefaultParams] = "live"
     /\ \A h \in Handles :
          /\ pc'[h] = "constructing" =>
               /\ DefaultPresent'
               /\ gp'[DefaultParams].rsObj = mainStream'[h]
               /\ gp'[DefaultParams].env = h
          /\ InitReturned(h)' =>
               \A j \in 1..Len(SetupPullsOf(h)') :
                 /\ SetupPullsOf(h)'[j].params = DefaultParams
                 /\ SetupPullsOf(h)'[j].rs = mainStream'[h]]_vars

\* A second object, whose mainStream differs from that of the first, has
\* been constructed with the default generator the first one left, and its
\* setup pulled a uniform from the second object's mainStream.
C18_Witness ==
  \E h \in Handles : /\ calls.lives[h] = 2 /\ InitReturned(h) /\ Constructed(h)
                     /\ calls.prev[h] = 1 /\ mainStream[h] = 2
                     /\ DefaultPresent /\ heap[DefaultUrng] = "live"
                     /\ Len(SetupPullsOf(h)) = 1
                     /\ SetupPullsOf(h)[1].rs = 2

\* The releases close makes on a constructed object, in order.
CloseOrder(h) == <<Blk(h, "urng_aux.params"), Blk(h, "urng_aux.urng"),
                   Blk(h, "urng.params"), Blk(h, "urng.urng"), Blk(h, "unurgen"),
                   Blk(h, "objAuxStream"), Blk(h, "objMainStream"), Blk(h, "np")>>

\* C19: close on a constructed object releases the auxiliary generator, the
\* main generator, the UNURAN generator, the global references to the
\* streams and np, in this order, with the nativeParams field non-null at
\* each release; the field is null when close has returned.
C19_CloseOrder ==
  \A h \in Handles :
    (Constructed(h) /\ calls.close[h] >= 1) =>
      /\ rel[h] = CloseOrder(h)
      /\ held[h] = [i \in 1..Len(CloseOrder(h)) |-> TRUE]
      /\ nativeParams[h] = NULL

\* The first close of a constructed object has returned.
C19_Witness ==
  \E h \in Handles : /\ op[h].kind = "close" /\ pc[h] = "returned"
                     /\ Constructed(h) /\ calls.close[h] = 1
                     /\ Len(rel[h]) = 8 /\ nativeParams[h] = NULL

\* h was constructed and has not been closed.
Open(h) == Constructed(h) /\ calls.close[h] = 0
\* The UNURAN generator, both uniform generators with their blocks and both
\* global references are where init put them, and live.
Present(h) ==
  /\ nativeParams[h] = Blk(h, "np")
  /\ np[h].unurgen = Blk(h, "unurgen")
  /\ np[h].urng = [urng |-> Blk(h, "urng.urng"), params |-> Blk(h, "urng.params")]
  /\ np[h].urng_aux.urng = Blk(h, "urng_aux.urng")
  /\ np[h].urng_aux.params \in {Blk(h, "urng_aux.params"), Blk(h, "urng.params")}
  /\ gen[h] = [urng |-> Blk(h, "urng.urng"), urng_aux |-> Blk(h, "urng_aux.urng")]
  /\ np[h].objMainStream = mainStream[h] /\ mainStream[h] # NoObj
  /\ np[h].objAuxStream = auxStream[h] /\ auxStream[h] # NoObj
  /\ np[h].dim \in Dims
  /\ \A b \in HandleBlocks(h) : heap[b] = "live"

\* C20: from the return of a successful init to the first close the UNURAN
\* generator, both uniform generators and both global references are
\* present, and no step (sampling call, pull, query) changes np->unurgen,
\* np->dim, np->objMainStream or np->objAuxStream.
C20_ReadyInvariants ==
  [][\A h \in Handles :
       /\ Open(h)' => Present(h)'
       /\ (Open(h) /\ Open(h)') =>
            /\ np'[h].unurgen = np[h].unurgen
            /\ np'[h].dim = np[h].dim
            /\ np'[h].objMainStream = np[h].objMainStream
            /\ np'[h].objAuxStream = np[h].objAuxStream
            /\ gen'[h] = gen[h]]_vars

\* A query asked the engine of an object that had sampled before.
C20_Witness ==
  \E h \in Handles : /\ op[h].kind \in Queries /\ pc[h] = "returned"
                     /\ Open(h) /\ calls.sampled[h]
                     /\ op[h].distr = Blk(h, "unurgen")

C24_NoLeftoverDelivered ==
  [][\A h \in Handles :
       LET b == Blk(h, "urng.params")
           P == PrimaryPulls(h)'
       IN /\ (pc[h] = "idle" /\ pc'[h] = "engine") =>
               /\ SingleCall(h)' => (gp'[b].unif = "cons" /\ gp'[b].u = op'[h].u)
               /\ BatchCall(h)' => /\ gp'[b].unif = "arr" /\ gp'[b].junifArray = "ju"
                                   /\ gp'[b].unifArray = op'[h].uPtr
                                   /\ gp'[b].n = op'[h].n /\ gp'[b].nextIndex = op'[h].n
          /\ (pc[h] = "engine" /\ Len(PrimaryPulls(h)) = 0 /\ Len(P) = 1) =>
               /\ P[1].params = b /\ P[1].fn = gp[b].unif
               /\ SingleCall(h) => (P[1].fn = "cons" /\ P[1].val = op[h].u)
               /\ BatchCall(h) =>
                    /\ P[1].fn = "arr" /\ P[1].refill /\ P[1].rs = mainStream[h]
                    /\ P[1].val = StreamValue(mainStream[h], pos[h][mainStream[h]])
                    /\ P[1].val = jarr'[h].ju[1]]_vars

\* After a batch call returned on it, with the block still holding that
\* call's array reference and length, a single-value call has had its first
\* pull served by cons with its own u.
C24_Witness ==
  \E h \in Handles :
    LET g == gp[Blk(h, "urng.params")]
    IN /\ SingleCall(h) /\ pc[h] = "engine" /\ calls.sampled[h]
       /\ g.junifArray = "ju" /\ g.n >= 1 /\ g.nextIndex >= 1
       /\ Len(PrimaryPulls(h)) = 1
       /\ PrimaryPulls(h)[1].fn = "cons" /\ PrimaryPulls(h)[1].val = op[h].u

\* What the sampling calls of object h work with: its two parameter blocks,
\* its NativeParams, and the blocks its uniform generators are bound to.
AdapterState(h) ==
  [main |-> gp[Blk(h, "urng.params")], aux |-> gp[Blk(h, "urng_aux.params")],
   np |-> np[h], gen |-> gen[h],
   bound |-> <<urngParams[Blk(h, "urng.urng")], urngParams[Blk(h, "urng_aux.urng")]>>]
\* The default generator and its parameter block.
DefaultState ==
  [urng |-> default_urng, block |-> gp[DefaultParams],
   bound |-> urngParams[DefaultUrng], unur |-> unurDefault]
\* This step is the entry of a sampling call on g, a pull of the engine
\* during it, or the engine's return.
SamplingStep(g) ==
  /\ (SingleCall(g) \/ BatchCall(g))'
  /\ \/ pc[g] = "idle" /\ pc'[g] # "idle"
     \/ pc[g] = "engine" /\ (pullLog'[g] # pullLog[g] \/ op'[g] # op[g])

\* C21: with two objects in use and their sampling calls interleaved in any
\* way, no step of a sampling call on one object changes anything the other
\* object samples with (callback, cached value, array reference and pointer,
\* length, cursor of either block, the blocks its generators are bound to,
\* its NativeParams), and none changes the default generator or its block.
C21_SamplingIsPerObject ==
  [][\A g \in Handles :
       SamplingStep(g) =>
         /\ DefaultState' = DefaultState
         /\ \A h \in Handles \ {g} : AdapterState(h)' = AdapterState(h)]_vars

\* A single-value call on one object and a batch call on the other are both
\* in the engine, each after a pull.
C21_Witness ==
  \E g \in Handles, h \in Handles :
    /\ g # h /\ pc[g] = "engine" /\ pc[h] = "engine"
    /\ SingleCall(g) /\ BatchCall(h)
    /\ Len(pullLog[g]) >= 1 /\ Len(pullLog[h]) >= 1

\* C22: two init calls may interleave so that the UNURAN generator of one
\* object is created while the default block refers to the other object's
\* mainStream (C22_Witness); an init call that runs while no other init call
\* is under way has the default block referring to its own object's
\* mainStream from the setting of the block until unur_str2gen has run, and
\* the uniforms unur_str2gen pulls are the next ones of that stream.
C22_SerializedInitOwnStream ==
  \A h \in Handles :
    ~calls.overlap[h] =>
      /\ pc[h] = "constructing" =>
           /\ default_urng.params = DefaultParams
           /\ gp[DefaultParams].rsObj = mainStream[h] /\ gp[DefaultParams].env = h
      /\ (InitReturned(h) /\ nativeParams[h] # NULL) =>
           \A j \in 1..Len(SetupPullsOf(h)) :
             /\ SetupPullsOf(h)[j].params = DefaultParams
             /\ SetupPullsOf(h)[j].rs = mainStream[h]
             /\ SetupPullsOf(h)[j].val = StreamValue(mainStream[h], j - 1)

\* The init call of object a has created its generator and returned, having
\* run while the init call of object b was under way, and the default block
\* refers to the mainStream of b, which is not that of a.
C22_Witness ==
  \E a \in Handles, b \in Handles :
    /\ a # b /\ InitReturned(a) /\ calls.overlap[a]
    /\ nativeParams[a] # NULL /\ np[a].unurgen = Blk(a, "unurgen")
    /\ gp[DefaultParams].rsObj = mainStream[b] /\ gp[DefaultParams].env = b
    /\ mainStream[b] # mainStream[a]
    /\ Len(SetupPullsOf(a)) >= 1 /\ SetupPullsOf(a)[1].rs = mainStream[b]

====
